---- MODULE Spec2Model ----
(***************************************************************************)
(* A model of the chat backend of cfchase/chatbot: the completion endpoint *)
(* (backend/app/api/routes/v1/chat/router.py) and the tool-use             *)
(* conversation loop of ClaudeService (backend/app/services/claude.py).    *)
(*                                                                         *)
(* Text is a sequence of one-character strings, so that concatenation,     *)
(* str.lower(), the substring tests of the error translation, str.split()  *)
(* and the character-by-character event stream are computed as the code    *)
(* computes them.                                                          *)
(***************************************************************************)
EXTENDS Integers, Sequences, FiniteSets, TLC

(***************************************************************************)
(* Bounds of the model.                                                    *)
(***************************************************************************)
\* longest request message explored
MaxMsgLen == 2
\* content blocks per provider response
MaxBlocks == 2
\* provider calls per request: the tool-use cycle itself has no limit
MaxCalls == 2
\* chat requests served at the same time
MaxRequests == 2

(***************************************************************************)
(* String literals of the source.                                          *)
(***************************************************************************)
EchoPrefix ==
  <<"E", "c", "h", "o", ":", " ">>

NoCredentialNote ==
  <<"\n", "\n", "N", "o", "t", "e", ":", " ", "C", "l", "a", "u", "d", "e",
    " ", "A", "I", " ", "i", "s", " ", "n", "o", "t", " ", "a", "v", "a",
    "i", "l", "a", "b", "l", "e", ".", " ", "N", "o", " ", "A", "n", "t",
    "h", "r", "o", "p", "i", "c", " ", "A", "P", "I", " ", "k", "e", "y",
    " ", "h", "a", "s", " ", "b", "e", "e", "n", " ", "p", "r", "o", "v",
    "i", "d", "e", "d", ".", " ", "P", "l", "e", "a", "s", "e", " ", "s",
    "e", "t", " ", "t", "h", "e", " ", "A", "N", "T", "H", "R", "O", "P",
    "I", "C", "_", "A", "P", "I", "_", "K", "E", "Y", " ", "e", "n", "v",
    "i", "r", "o", "n", "m", "e", "n", "t", " ", "v", "a", "r", "i", "a",
    "b", "l", "e", " ", "t", "o", " ", "e", "n", "a", "b", "l", "e", " ",
    "C", "l", "a", "u", "d", "e", ".">>

ErrorNotePrefix ==
  <<"\n", "\n", "N", "o", "t", "e", ":", " ", "C", "l", "a", "u", "d", "e",
    " ", "e", "n", "c", "o", "u", "n", "t", "e", "r", "e", "d", " ", "a",
    "n", " ", "e", "r", "r", "o", "r", ":", " ">>

NotAvailableMsg ==
  <<"C", "l", "a", "u", "d", "e", " ", "s", "e", "r", "v", "i", "c", "e",
    " ", "i", "s", " ", "n", "o", "t", " ", "a", "v", "a", "i", "l", "a",
    "b", "l", "e", ".", " ", "P", "l", "e", "a", "s", "e", " ", "c", "o",
    "n", "f", "i", "g", "u", "r", "e", " ", "A", "N", "T", "H", "R", "O",
    "P", "I", "C", "_", "A", "P", "I", "_", "K", "E", "Y", ".">>

NoResponseGenerated ==
  <<"N", "o", " ", "r", "e", "s", "p", "o", "n", "s", "e", " ", "g", "e",
    "n", "e", "r", "a", "t", "e", "d">>

InvalidKeyMsg ==
  <<"I", "n", "v", "a", "l", "i", "d", " ", "o", "r", " ", "m", "i", "s",
    "s", "i", "n", "g", " ", "A", "P", "I", " ", "k", "e", "y">>

RateLimitMsg ==
  <<"R", "a", "t", "e", " ", "l", "i", "m", "i", "t", " ", "e", "x", "c",
    "e", "e", "d", "e", "d", ".", " ", "P", "l", "e", "a", "s", "e", " ",
    "t", "r", "y", " ", "a", "g", "a", "i", "n", " ", "l", "a", "t", "e",
    "r", ".">>

ApiErrorPrefix ==
  <<"C", "l", "a", "u", "d", "e", " ", "A", "P", "I", " ", "e", "r", "r",
    "o", "r", ":", " ">>

ToolErrorPrefix ==
  <<"E", "r", "r", "o", "r", " ", "e", "x", "e", "c", "u", "t", "i", "n",
    "g", " ", "t", "o", "o", "l", ":", " ">>

ServerErrorPrefix ==
  <<"E", "r", "r", "o", "r", " ", "p", "r", "o", "c", "e", "s", "s", "i",
    "n", "g", " ", "c", "h", "a", "t", " ", "r", "e", "q", "u", "e", "s",
    "t", ":", " ">>

ApiKeyNeedle ==
  <<"a", "p", "i", "_", "k", "e", "y">>

RateNeedle ==
  <<"r", "a", "t", "e">>

(***************************************************************************)
(* String literals of MCPService.execute_tool.                             *)
(***************************************************************************)
UnknownToolPrefix ==
  <<"E", "r", "r", "o", "r", ":", " ", "U", "n", "k", "n", "o", "w", "n",
    " ", "t", "o", "o", "l", " ", "'">>

ClosingQuote ==
  <<"'">>

ToolFailurePrefix ==
  <<"E", "r", "r", "o", "r", " ", "e", "x", "e", "c", "u", "t", "i", "n",
    "g", " ", "t", "o", "o", "l", " ">>

ColonSpace ==
  <<":", " ">>

InvalidCharsMsg ==
  <<"E", "r", "r", "o", "r", ":", " ", "I", "n", "v", "a", "l", "i", "d",
    " ", "c", "h", "a", "r", "a", "c", "t", "e", "r", "s", " ", "i", "n",
    " ", "e", "x", "p", "r", "e", "s", "s", "i", "o", "n", ".">>

ResultPrefix ==
  <<"R", "e", "s", "u", "l", "t", ":", " ">>

EqualsSign ==
  <<" ", "=", " ">>

(***************************************************************************)
(* Configuration defaults (backend/app/config.py).                         *)
(***************************************************************************)
ModelName == "claude-sonnet-4-20250514"
MaxTokens == 1024
Temperature == "0.7"

(***************************************************************************)
(* Inputs: request messages, provider responses and failures, tool         *)
(* outcomes.                                                               *)
(***************************************************************************)
Alphabet == {"a", " "}
Messages == UNION {[1..n -> Alphabet] : n \in 0..MaxMsgLen}
\* messages of direct calls of the service (the loop only compares them)
DirectMessages == {<<>>, <<"a">>}

\* texts of exceptions raised by the provider client
ProviderErrors ==
  {<<"b", "a", "d", " ", "A", "P", "I", "_", "K", "E", "Y">>,
   <<"r", "a", "t", "e", " ", "l", "i", "m", "i", "t">>,
   <<"b", "o", "o", "m">>,
   <<"c", "a", "n", "n", "o", "t", " ", "g", "e", "n", "e", "r", "a", "t",
     "e">>}
\* text of the exception raised when the service module cannot be imported
ImportErrorMsg == <<"n", "o", " ", "m", "o", "d", "u", "l", "e">>

(***************************************************************************)
(* Text helpers.                                                           *)
(***************************************************************************)
RECURSIVE ConcatRange(_, _, _)
ConcatRange(ss, lo, hi) ==
  IF lo > hi THEN <<>>
  ELSE IF lo = hi THEN ss[lo]
  ELSE LET mid == (lo + hi) \div 2
       IN  ConcatRange(ss, lo, mid) \o ConcatRange(ss, mid + 1, hi)

Concat(ss) == ConcatRange(ss, 1, Len(ss))

LowerChar(c) ==
  CASE c = "A" -> "a" [] c = "B" -> "b" [] c = "C" -> "c" [] c = "D" -> "d"
    [] c = "E" -> "e" [] c = "F" -> "f" [] c = "G" -> "g" [] c = "H" -> "h"
    [] c = "I" -> "i" [] c = "J" -> "j" [] c = "K" -> "k" [] c = "L" -> "l"
    [] c = "M" -> "m" [] c = "N" -> "n" [] c = "O" -> "o" [] c = "P" -> "p"
    [] c = "Q" -> "q" [] c = "R" -> "r" [] c = "S" -> "s" [] c = "T" -> "t"
    [] c = "U" -> "u" [] c = "V" -> "v" [] c = "W" -> "w" [] c = "X" -> "x"
    [] c = "Y" -> "y" [] c = "Z" -> "z" [] OTHER -> c

\* str.lower()
Lower(s) == [i \in 1..Len(s) |-> LowerChar(s[i])]

\* sub in s
Contains(s, sub) ==
  \E i \in 1..(Len(s) - Len(sub) + 1) : SubSeq(s, i, i + Len(sub) - 1) = sub

IsSpace(c) == c \in {" ", "\n", "\t"}

RECURSIVE WordEnd(_, _)
WordEnd(s, i) ==
  IF i > Len(s) THEN i - 1
  ELSE IF IsSpace(s[i]) THEN i - 1
  ELSE WordEnd(s, i + 1)

\* str.split(): the whitespace-separated words
RECURSIVE Split(_)
Split(s) ==
  IF s = <<>> THEN <<>>
  ELSE IF IsSpace(s[1]) THEN Split(Tail(s))
  ELSE LET n == WordEnd(s, 1)
       IN  <<SubSeq(s, 1, n)>> \o Split(SubSeq(s, n + 1, Len(s)))

(***************************************************************************)
(* Content blocks, history entries and request parameters.  Records of one *)
(* kind carry the same fields; a field a variant lacks holds an empty      *)
(* value.                                                                  *)
(***************************************************************************)
NoId == <<>>
TextBlock(t) ==
  [type |-> "text", text |-> t, id |-> NoId, name |-> "", input |-> {}]
ToolUseBlock(id, name, input) ==
  [type |-> "tool_use", text |-> <<>>, id |-> id, name |-> name,
   input |-> input]
ToolResultBlock(id, content) ==
  [type |-> "tool_result", text |-> content, id |-> id, name |-> "",
   input |-> {}]

\* an entry whose content is a string / a list of blocks
TextEntry(role, t) ==
  [role |-> role, kind |-> "str", text |-> t, blocks |-> <<>>]
BlocksEntry(role, bs) ==
  [role |-> role, kind |-> "list", text |-> <<>>, blocks |-> bs]

\* entry["content"] == message: a list never equals a string
ContentEquals(entry, m) == entry.kind = "str" /\ entry.text = m

\* tool descriptors as the registry lists them
CalculateTool ==
  [name |-> "calculate", description |-> "Perform calculations",
   input_schema |-> "object"]
ToolLists == {<<>>, <<CalculateTool>>}

\* tool arguments: a mapping, as a set of <<key, value>> pairs
CalcInput == {<<"expression", "5 + 5">>}

\* the provider sends no empty text block; an empty content list does occur
BlockTemplates ==
  {TextBlock(<<"x">>), ToolUseBlock(NoId, "calculate", CalcInput)}
Responses == UNION {[1..n -> BlockTemplates] : n \in 0..MaxBlocks}
HasToolUse(content) == \E i \in 1..Len(content) : content[i].type = "tool_use"

\* the provider gives every tool-use block an id of its own
StampIds(content, callNo) ==
  [i \in 1..Len(content) |->
     IF content[i].type = "tool_use"
     THEN [content[i] EXCEPT !.id = <<callNo, i>>]
     ELSE content[i]]

\* outcomes of mcp_service.call_tool: a result text, or an exception
ToolOutcomes ==
  {[raised |-> FALSE, text |-> <<"1", "0">>],
   [raised |-> TRUE, text |-> <<"f", "a", "i", "l">>]}

(***************************************************************************)
(* MCPService: configuration loading and execute_tool.                     *)
(***************************************************************************)
\* what the configuration file holds when the service is constructed
ConfigFiles ==
  {"missing", "unparseable", "valid", "unimplemented_tool", "duplicate_tool"}

\* the configuration used when the file is missing or cannot be read
DefaultConfig == [name |-> "default-server", tools |-> <<>>]
\* the configuration a readable file holds
FileConfig == [name |-> "chatbot-mcp-server", tools |-> <<CalculateTool>>]

\* a configured tool that execute_tool has no branch for
UnregisteredTool ==
  [name |-> "unregistered_tool", description |-> "Not implemented",
   input_schema |-> "object"]
\* readable files that list such a tool, and the same tool twice
UnimplementedToolConfig ==
  [name |-> "chatbot-mcp-server",
   tools |-> <<CalculateTool, UnregisteredTool>>]
DuplicateToolConfig ==
  [name |-> "chatbot-mcp-server", tools |-> <<CalculateTool, CalculateTool>>]

\* a loader that trusts the file to be there and does not use the default
LoadConfigNoDefault(file) == FileConfig

\* _load_config: the file's content, or the default when the file does not
\* exist or json.load raises
LoadConfig(file) ==
  IF file = "missing" THEN DefaultConfig
  ELSE IF file = "unparseable" THEN DefaultConfig
  ELSE IF file = "unimplemented_tool" THEN UnimplementedToolConfig
  ELSE IF file = "duplicate_tool" THEN DuplicateToolConfig
  ELSE FileConfig

\* get_tools_for_claude: one descriptor per configured tool
ToolsForClaude(config) ==
  [i \in 1..Len(config.tools) |->
     [name |-> config.tools[i].name,
      description |-> config.tools[i].description,
      input_schema |-> config.tools[i].input_schema]]

\* the state of the tool service before and after initialize()
Uninitialized == [initialized |-> FALSE, available |-> FALSE, tools |-> <<>>]
Initialized(file, connects) ==
  LET config == LoadConfig(file)
      tools == IF connects THEN ToolsForClaude(config) ELSE <<>>
  IN  [initialized |-> TRUE, available |-> tools # <<>>, tools |-> tools]

\* tool names and arguments tried against execute_tool
CalculateName == <<"c", "a", "l", "c", "u", "l", "a", "t", "e">>
UnregisteredName ==
  <<"u", "n", "r", "e", "g", "i", "s", "t", "e", "r", "e", "d", "_", "t",
    "o", "o", "l">>
MalformedName == <<".", ".", "/", "e", "t", "c">>
ToolNames == {CalculateName, UnregisteredName, MalformedName}
\* the characters of a configured tool name
NameText(name) ==
  IF name = "calculate" THEN CalculateName ELSE UnregisteredName

FivePlusFive == <<"5", " ", "+", " ", "5">>
OneByZero == <<"1", "/", "0">>
ParameterSets ==
  {{},
   {<<"expression", FivePlusFive>>},
   {<<"expression", OneByZero>>},
   {<<"expression", <<"x">>>>}}

\* parameters.get(key, default)
Get(parameters, key, default) ==
  IF \E p \in parameters : p[1] = key
  THEN (CHOOSE p \in parameters : p[1] = key)[2]
  ELSE default

AllowedChars ==
  {"0", "1", "2", "3", "4", "5", "6", "7", "8", "9", "+", "-", "*", "/",
   ".", "(", ")", " "}

\* eval(expression) on the expressions above: a value, or an exception
Eval(expression) ==
  IF expression = FivePlusFive
  THEN [raised |-> FALSE, text |-> <<"1", "0">>]
  ELSE IF expression = OneByZero
  THEN [raised |-> TRUE,
        text |-> <<"d", "i", "v", "i", "s", "i", "o", "n", " ", "b", "y",
                   " ", "z", "e", "r", "o">>]
  ELSE [raised |-> TRUE,
        text |-> <<"i", "n", "v", "a", "l", "i", "d", " ", "s", "y", "n",
                   "t", "a", "x">>]

NoToolResult == [text |-> <<>>, logic |-> "", raised |-> FALSE]

\* execute_tool: the branch of the named tool, the unknown-tool message for
\* any other name, and every exception turned into an error text
MCPExecuteTool(tool_name, parameters) ==
  IF tool_name = CalculateName
  THEN LET expression == Get(parameters, "expression", <<>>)
       IN  IF \E i \in 1..Len(expression) : expression[i] \notin AllowedChars
           THEN [text |-> InvalidCharsMsg, logic |-> "calculate",
                 raised |-> FALSE]
           ELSE LET r == Eval(expression)
                IN  [text |->
                       IF r.raised
                       THEN ToolFailurePrefix \o tool_name \o ColonSpace
                              \o r.text
                       ELSE ResultPrefix \o expression \o EqualsSign
                              \o r.text,
                     logic |-> "calculate", raised |-> FALSE]
  ELSE [text |-> UnknownToolPrefix \o tool_name \o ClosingQuote,
        logic |-> "", raised |-> FALSE]

(***************************************************************************)
(* The completion endpoint: response texts and envelopes.                  *)
(***************************************************************************)
\* a fallback that leaves the message out of the echo
NoCredentialTextNoMessage(m) == EchoPrefix \o NoCredentialNote

\* the echo fallback when no credential is configured
NoCredentialText(m) == EchoPrefix \o m \o NoCredentialNote

\* a fallback that reports an error without saying which
ErrorFallbackTextNoDetail(m, err) == EchoPrefix \o m \o ErrorNotePrefix

\* the echo fallback when get_completion raised
ErrorFallbackText(m, err) == EchoPrefix \o m \o ErrorNotePrefix \o err

\* a usage that counts characters instead of words
UsageByChars(m, text) ==
  [prompt_tokens |-> Len(m),
   completion_tokens |-> Len(text),
   total_tokens |-> Len(m) + Len(text)]

\* usage: whitespace-separated words of the request and of the response
Usage(m, text) ==
  [prompt_tokens |-> Len(Split(m)),
   completion_tokens |-> Len(Split(text)),
   total_tokens |-> Len(Split(m)) + Len(Split(text))]

NoUsage == [prompt_tokens |-> 0, completion_tokens |-> 0, total_tokens |-> 0]
NoResponse ==
  [status |-> 0, sender |-> "", text |-> <<>>, usage |-> NoUsage,
   detail |-> <<>>]

ChatCompletionResponse(m, text) ==
  [status |-> 200, sender |-> "bot", text |-> text, usage |-> Usage(m, text),
   detail |-> <<>>]

\* a server error that does not say what failed
ServerErrorNoText(err) ==
  [status |-> 500, sender |-> "", text |-> <<>>, usage |-> NoUsage,
   detail |-> ServerErrorPrefix]

\* HTTPException(status_code=500, detail=...)
ServerError(err) ==
  [status |-> 500, sender |-> "", text |-> <<>>, usage |-> NoUsage,
   detail |-> ServerErrorPrefix \o err]

(***************************************************************************)
(* ClaudeService: the pure parts of the conversation loop.                 *)
(***************************************************************************)
\* a preparation that starts the history over
PrepareMessagesFresh(hist, m) == <<TextEntry("user", m)>>

\* an append without the guard against a repeated message
PrepareMessagesUnguarded(hist, m) == Append(hist, TextEntry("user", m))

\* messages = conversation_history if conversation_history else [], then
\* the guarded append of the user message
PrepareMessages(hist, m) ==
  IF hist = <<>> \/ ~ContentEquals(hist[Len(hist)], m)
  THEN Append(hist, TextEntry("user", m))
  ELSE hist

\* keyword arguments that carry tools even when the list is empty
CreateParamsAlwaysTools(msgs, tools) ==
  ("tools" :> tools) @@
    [model |-> ModelName, max_tokens |-> MaxTokens,
     temperature |-> Temperature, messages |-> msgs]

\* the keyword arguments of messages.create / messages.stream
CreateParams(msgs, tools) ==
  LET params == [model |-> ModelName, max_tokens |-> MaxTokens,
                 temperature |-> Temperature, messages |-> msgs]
  IN  IF tools # <<>> THEN ("tools" :> tools) @@ params ELSE params

\* a walk that goes on gathering text after the tool-use block
RECURSIVE WalkContentPastToolUse(_, _, _)
WalkContentPastToolUse(content, i, acc) ==
  IF i > Len(content) THEN [text |-> acc, tool |-> 0]
  ELSE IF content[i].type = "text" /\ content[i].text # <<>>
       THEN WalkContentPastToolUse(content, i + 1, acc \o content[i].text)
  ELSE IF content[i].type = "tool_use"
       THEN [text |-> WalkContentPastToolUse(content, i + 1, acc).text,
             tool |-> i]
  ELSE WalkContentPastToolUse(content, i + 1, acc)

\* a walk that forgets the text gathered before the tool-use block
RECURSIVE WalkContentDropsLead(_, _, _)
WalkContentDropsLead(content, i, acc) ==
  IF i > Len(content) THEN [text |-> acc, tool |-> 0]
  ELSE IF content[i].type = "text" /\ content[i].text # <<>>
       THEN WalkContentDropsLead(content, i + 1, acc \o content[i].text)
  ELSE IF content[i].type = "tool_use" THEN [text |-> <<>>, tool |-> i]
  ELSE WalkContentDropsLead(content, i + 1, acc)

\* the walk over response.content: text accumulates up to the first
\* tool-use block, where the walk stops; tool = 0 when there is none
RECURSIVE WalkContent(_, _, _)
WalkContent(content, i, acc) ==
  IF i > Len(content) THEN [text |-> acc, tool |-> 0]
  ELSE IF content[i].type = "text" /\ content[i].text # <<>>
       THEN WalkContent(content, i + 1, acc \o content[i].text)
  ELSE IF content[i].type = "tool_use" THEN [text |-> acc, tool |-> i]
  ELSE WalkContent(content, i + 1, acc)

\* _execute_tool: the result of call_tool, or the caught error as text
ExecuteTool(o) == IF o.raised THEN ToolErrorPrefix \o o.text ELSE o.text

\* the except clause of get_completion / get_streaming_completion
TranslateError(e) ==
  IF Contains(Lower(e), ApiKeyNeedle) THEN InvalidKeyMsg
  ELSE IF Contains(Lower(e), RateNeedle) THEN RateLimitMsg
  ELSE ApiErrorPrefix \o e

\* return result_text if result_text else "No response generated"
ResultOrPlaceholder(text) ==
  IF text # <<>> THEN text ELSE NoResponseGenerated

Returned(text) == [kind |-> "returned", text |-> text]
Raised(text) == [kind |-> "raised", text |-> text]
NoOutcome == [kind |-> "none", text |-> <<>>]

(***************************************************************************)
(* The event stream of the endpoint (generate_streaming_response).         *)
(***************************************************************************)
\* for char in text: one content event per character
CharFragments(text) == [i \in 1..Len(text) |-> <<text[i]>>]

\* for i, word in enumerate(words): a space before every word but the
\* first, then the characters of the word
RECURSIVE WordFragments(_, _)
WordFragments(words, i) ==
  IF i > Len(words) THEN <<>>
  ELSE (IF i > 1 THEN << <<" ">> >> ELSE <<>>)
       \o CharFragments(words[i]) \o WordFragments(words, i + 1)

\* the notice streamed word by word, as the simulated stream is
NoCredentialFragmentsByWord(m) ==
  WordFragments(Split(EchoPrefix \o m \o NoCredentialNote), 1)

\* the no-credential notice of the streaming handler, character by
\* character
NoCredentialFragments(m) ==
  CharFragments(EchoPrefix \o m \o NoCredentialNote)

\* the simulated stream sent when the service is available
EchoFragments(m) == CharFragments(EchoPrefix) \o WordFragments(Split(m), 1)

ContentEvent(fragment) ==
  [type |-> "content", id |-> "message_id", content |-> fragment,
   error |-> <<>>]
DoneEvent ==
  [type |-> "done", id |-> "message_id", content |-> <<>>, error |-> <<>>]
ErrorEvent(err) ==
  [type |-> "error", id |-> "", content |-> <<>>, error |-> err]

\* what the handler yields after the last fragment
CompletionEvents(sent) == Append(sent, DoneEvent)

\* an except that goes on to send the completion event
FailureEventsThenDone(sent, err) ==
  Append(Append(sent, ErrorEvent(err)), DoneEvent)

\* what the handler yields from its except
FailureEvents(sent, err) == Append(sent, ErrorEvent(err))

(***************************************************************************)
(* Provider stream events and their handling in get_streaming_completion.  *)
(***************************************************************************)
StreamEvent(type, block_type, has_text, text, has_json, json, id, name) ==
  [type |-> type, block_type |-> block_type, has_text |-> has_text,
   text |-> text, has_json |-> has_json, partial_json |-> json, id |-> id,
   name |-> name]

\* json.dumps / json.loads of a tool input, over JSON tokens
JsonDumps(input) ==
  IF input = {} THEN <<"{", "}">>
  ELSE LET kv == CHOOSE p \in input : TRUE
       IN  <<"{", kv[1], ":", kv[2], "}">>

JsonLoads(s) ==
  IF s = <<"{", "}">> THEN [ok |-> TRUE, value |-> {}]
  ELSE IF Len(s) = 5
       THEN IF s[1] = "{" /\ s[3] = ":" /\ s[5] = "}"
                /\ s[2] \notin {"{", "}", ":"} /\ s[4] \notin {"{", "}", ":"}
            THEN [ok |-> TRUE, value |-> {<<s[2], s[4]>>}]
            ELSE [ok |-> FALSE, value |-> {}]
  ELSE [ok |-> FALSE, value |-> {}]

\* the events the provider sends for one content block: a text block is a
\* start and a text delta; a tool-use block is a start and its input as two
\* partial_json deltas
BlockEvents(b) ==
  IF b.type = "text"
  THEN <<StreamEvent("content_block_start", "text", FALSE, <<>>, FALSE,
                     <<>>, NoId, ""),
         StreamEvent("content_block_delta", "", TRUE, b.text, FALSE, <<>>,
                     NoId, "")>>
  ELSE LET j == JsonDumps(b.input)
       IN  <<StreamEvent("content_block_start", "tool_use", FALSE, <<>>,
                         FALSE, <<>>, b.id, b.name),
             StreamEvent("content_block_delta", "", FALSE, <<>>, TRUE,
                         SubSeq(j, 1, 1), NoId, ""),
             StreamEvent("content_block_delta", "", FALSE, <<>>, TRUE,
                         SubSeq(j, 2, Len(j)), NoId, "")>>

RECURSIVE StreamEvents(_)
StreamEvents(content) ==
  IF content = <<>> THEN <<>>
  ELSE BlockEvents(Head(content)) \o StreamEvents(Tail(content))

\* the chunks one event makes the generator yield
YieldedChunks(e) ==
  IF e.type = "content_block_delta"
  THEN IF e.has_text THEN <<e.text>> ELSE <<>>
  ELSE <<>>

\* tool_use_blocks after one event
CollectToolUse(blocks, e) ==
  IF e.type = "content_block_delta" THEN blocks
  ELSE IF e.type = "content_block_start" /\ e.block_type = "tool_use"
       THEN Append(blocks, [id |-> e.id, name |-> e.name, input |-> <<>>])
  ELSE IF e.type = "content_block_delta" /\ e.has_json
       THEN IF blocks # <<>>
            THEN [blocks EXCEPT ![Len(blocks)].input = @ \o e.partial_json]
            ELSE blocks
  ELSE blocks

\* json.loads(tool_block["input"]), {} on JSONDecodeError
ParseToolInput(text) ==
  IF JsonLoads(text).ok THEN JsonLoads(text).value ELSE {}

\* one provider call as the client sees it
ProviderCall(op, kwargs) == [op |-> op, kwargs |-> kwargs]
ToolCall(name, input, o) ==
  [name |-> name, input |-> input, raised |-> o.raised, text |-> o.text]

(***************************************************************************)
(* State.                                                                  *)
(***************************************************************************)
VARIABLES
  apiKey,         \* settings.anthropic_api_key is set: the client exists
  serviceLoads,   \* the import of the service inside the handler succeeds
  registry,       \* the tool list mcp_service.get_tools() returns
  entry,          \* the operation invoked
  message,        \* its message argument
  callerHistory,  \* the caller's conversation_history list
  priorHistory,   \* conversation_history as it was passed in
  configFile,     \* state of the tool-configuration file
  clientConnects, \* the tool client can be connected
  tool_name,      \* the name passed to execute_tool
  parameters,     \* the arguments passed to execute_tool
  mcp,            \* the tool service: initialised, available, its tools
  tool_result,    \* what execute_tool returned
  pc,             \* position of the request
  messages,       \* the messages list of the loop
  aliased,        \* messages is the caller's list object
  frames,         \* result_text of the suspended callers of the recursion
  result_text,    \* result_text of the running call
  response,       \* response.content of the last provider response
  exc,            \* text of the exception in flight
  calls,          \* keyword arguments of every provider call, in order
  toolCalls,      \* every call_tool invocation, in order
  outcome,        \* what the service call returned or raised
  fallbacks,      \* echo substitutions made by the endpoint
  http,           \* the endpoint's non-streaming response
  events,         \* the events the streaming endpoint has sent
  pending,        \* the fragments it has still to send
  chunks,         \* the chunks get_streaming_completion has yielded
  stream,         \* the events of the open provider stream not yet read
  tool_use_blocks, \* tool_use_blocks of the running call
  toolIdx,        \* position of the for loop over tool_use_blocks
  openStreams,    \* provider streams entered and not yet exited
  started,        \* how the startup handler ended
  reqPc,          \* position of each of the requests served concurrently
  reqList,        \* the list object each of them holds as messages
  reqResponse,    \* response.content of its last provider response
  lists,          \* the entries of every list object
  creators,       \* for every entry of a list object, the request that
                  \* appended it
  reqCalls        \* what each of its provider calls received

config ==
  <<apiKey, serviceLoads, registry, entry, message, priorHistory, configFile,
    clientConnects, tool_name, parameters>>
service == <<mcp, tool_result>>
loop == <<messages, callerHistory, aliased, frames, result_text, response,
          exc, calls, toolCalls, outcome>>
endpoint == <<fallbacks, http, events, pending>>
streaming == <<chunks, stream, tool_use_blocks, toolIdx, openStreams>>
application ==
  <<started, reqPc, reqList, reqResponse, lists, creators, reqCalls>>
vars == <<config, application, service, loop, pc, endpoint, streaming>>

\* the endpoint without and with stream, direct calls of the service,
\* several chat requests served at once, and the startup of the application
Entries ==
  {"chat", "chat_stream", "get_completion", "get_streaming_completion",
   "mcp_initialize", "mcp_execute_tool", "concurrent_chat", "startup"}

\* the requests in flight together
Requests == 1..MaxRequests

Histories ==
  {<<>>,
   <<TextEntry("user", <<"a">>)>>,
   <<TextEntry("user", <<"a">>), TextEntry("assistant", <<"b">>)>>,
   <<TextEntry("assistant", <<"a">>)>>}

Init ==
  /\ entry \in Entries
  /\ IF entry = "mcp_initialize"
     THEN configFile \in ConfigFiles /\ clientConnects \in BOOLEAN
     ELSE IF entry = "mcp_execute_tool"
     THEN configFile \in ConfigFiles /\ clientConnects = TRUE
     ELSE configFile = "valid" /\ clientConnects = TRUE
  /\ IF entry \in {"mcp_initialize", "mcp_execute_tool"}
     THEN /\ apiKey = FALSE
          /\ registry = IF entry = "mcp_execute_tool"
                        THEN ToolsForClaude(LoadConfig(configFile))
                        ELSE <<>>
          /\ serviceLoads = TRUE
          /\ message = <<>>
          /\ callerHistory = <<>>
          /\ pc = entry
     ELSE IF entry = "startup"
     THEN /\ apiKey \in BOOLEAN
          /\ registry = <<>>
          /\ serviceLoads = TRUE
          /\ message = <<>>
          /\ callerHistory = <<>>
          /\ pc = entry
     ELSE IF entry = "concurrent_chat"
     THEN /\ apiKey = TRUE
          /\ registry \in ToolLists
          /\ serviceLoads = TRUE
          /\ message \in DirectMessages
          /\ callerHistory = <<>>
          /\ pc = "serving"
     ELSE /\ apiKey \in BOOLEAN
          /\ registry \in ToolLists
          /\ IF entry \in {"chat", "chat_stream"}
             THEN /\ serviceLoads \in BOOLEAN
                  /\ message \in Messages
                  /\ callerHistory = <<>>
                  /\ pc = "start"
             ELSE /\ serviceLoads = TRUE
                  /\ message \in DirectMessages
                  /\ callerHistory \in Histories
                  /\ pc = entry
  /\ IF entry = "mcp_execute_tool"
     THEN tool_name \in ToolNames /\ parameters \in ParameterSets
     ELSE tool_name = <<>> /\ parameters = {}
  /\ mcp = Uninitialized
  /\ tool_result = NoToolResult
  /\ started = "no"
  /\ reqPc = [r \in Requests |-> "start"]
  /\ reqList = [r \in Requests |-> 0]
  /\ reqResponse = [r \in Requests |-> <<>>]
  /\ lists = [l \in Requests |-> <<>>]
  /\ creators = [l \in Requests |-> <<>>]
  /\ reqCalls = [r \in Requests |-> <<>>]
  /\ priorHistory = callerHistory
  /\ messages = <<>>
  /\ aliased = FALSE
  /\ frames = <<>>
  /\ result_text = <<>>
  /\ response = <<>>
  /\ exc = <<>>
  /\ calls = <<>>
  /\ toolCalls = <<>>
  /\ outcome = NoOutcome
  /\ fallbacks = 0
  /\ http = NoResponse
  /\ events = <<>>
  /\ pending = <<>>
  /\ chunks = <<>>
  /\ stream = <<>>
  /\ tool_use_blocks = <<>>
  /\ toolIdx = 0
  /\ openStreams = 0

(***************************************************************************)
(* handle_non_streaming_chat.                                              *)
(***************************************************************************)
\* the import inside the try fails: the outer except answers 500
NonStreamingImportFails ==
  /\ pc = "start" /\ entry = "chat" /\ ~serviceLoads
  /\ http' = ServerError(ImportErrorMsg)
  /\ pc' = "done"
  /\ UNCHANGED <<config, application, service, loop, fallbacks, events, pending, streaming>>

\* not claude_service.is_available: echo with the no-credential note
NonStreamingEcho ==
  /\ pc = "start" /\ entry = "chat" /\ serviceLoads /\ ~apiKey
  /\ http' = ChatCompletionResponse(message, NoCredentialText(message))
  /\ fallbacks' = fallbacks + 1
  /\ pc' = "done"
  /\ UNCHANGED <<config, application, service, loop, events, pending, streaming>>

\* await claude_service.get_completion(message=..., user_id=...)
NonStreamingCallClaude ==
  /\ pc = "start" /\ entry = "chat" /\ serviceLoads /\ apiKey
  /\ pc' = "get_completion"
  /\ UNCHANGED <<config, application, service, loop, endpoint, streaming>>

\* get_completion returned, or raised into the inner except
NonStreamingRespond ==
  /\ pc = "resume"
  /\ IF outcome.kind = "raised"
     THEN /\ http' = ChatCompletionResponse(
                       message, ErrorFallbackText(message, outcome.text))
          /\ fallbacks' = fallbacks + 1
     ELSE /\ http' = ChatCompletionResponse(message, outcome.text)
          /\ fallbacks' = fallbacks
  /\ pc' = "done"
  /\ UNCHANGED <<config, application, service, loop, events, pending, streaming>>

(***************************************************************************)
(* generate_streaming_response.                                            *)
(***************************************************************************)
\* the import inside the try fails: the except yields one error event
StreamingImportFails ==
  /\ pc = "start" /\ entry = "chat_stream" /\ ~serviceLoads
  /\ events' = FailureEvents(events, ImportErrorMsg)
  /\ pc' = "done"
  /\ UNCHANGED <<config, application, service, loop, fallbacks, http, pending, streaming>>

\* not claude_service.is_available: the notice is streamed
StreamingEcho ==
  /\ pc = "start" /\ entry = "chat_stream" /\ serviceLoads /\ ~apiKey
  /\ pending' = NoCredentialFragments(message)
  /\ pc' = "sse"
  /\ UNCHANGED <<config, application, service, loop, fallbacks, http, events, streaming>>

\* the service is available: the handler simulates a stream by echoing
StreamingSimulated ==
  /\ pc = "start" /\ entry = "chat_stream" /\ serviceLoads /\ apiKey
  /\ pending' = EchoFragments(message)
  /\ pc' = "sse"
  /\ UNCHANGED <<config, application, service, loop, fallbacks, http, events, streaming>>

\* yield one content event
StreamingYield ==
  /\ pc = "sse" /\ pending # <<>>
  /\ events' = Append(events, ContentEvent(Head(pending)))
  /\ pending' = Tail(pending)
  /\ UNCHANGED <<config, application, service, loop, pc, fallbacks, http, streaming>>

\* yield the completion event
StreamingDone ==
  /\ pc = "sse" /\ pending = <<>>
  /\ events' = CompletionEvents(events)
  /\ pc' = "done"
  /\ UNCHANGED <<config, application, service, loop, fallbacks, http, pending, streaming>>

(***************************************************************************)
(* ClaudeService.get_completion.                                           *)
(***************************************************************************)
Finished == IF entry = "chat" THEN "resume" ELSE "done"

\* if not self.is_available: raise, outside the try
GetCompletionUnavailable ==
  /\ pc = "get_completion" /\ ~apiKey
  /\ outcome' = Raised(NotAvailableMsg)
  /\ pc' = Finished
  /\ UNCHANGED <<config, application, service, messages, callerHistory, aliased, frames,
                 result_text, response, exc, calls, toolCalls, endpoint,
                 streaming>>

\* the messages list is the caller's own list when that list is non-empty
GetCompletionEnter ==
  /\ pc = "get_completion" /\ apiKey
  /\ messages' = PrepareMessages(callerHistory, message)
  /\ aliased' = (callerHistory # <<>>)
  /\ callerHistory' = IF aliased' THEN messages' ELSE callerHistory
  /\ pc' = "create"
  /\ UNCHANGED <<config, application, service, frames, result_text, response, exc, calls,
                 toolCalls, outcome, endpoint, streaming>>

\* response = await self.client.messages.create(**create_params), then the
\* walk over its content up to the first tool-use block
MessagesCreate ==
  /\ pc = "create" /\ Len(calls) < MaxCalls
  /\ calls' = Append(calls,
                ProviderCall("create", CreateParams(messages, registry)))
  /\ \E r \in Responses :
       /\ Len(calls) + 1 < MaxCalls \/ ~HasToolUse(r)
       /\ response' = StampIds(r, Len(calls) + 1)
       /\ LET walk == WalkContent(response', 1, <<>>)
          IN  /\ result_text' = walk.text
              /\ pc' = IF walk.tool = 0 THEN "return" ELSE "execute_tool"
  /\ UNCHANGED <<config, application, service, messages, callerHistory, aliased, frames, exc,
                 toolCalls, outcome, endpoint, streaming>>

\* the provider call raises
MessagesCreateFails ==
  /\ pc = "create" /\ Len(calls) < MaxCalls
  /\ calls' = Append(calls,
                ProviderCall("create", CreateParams(messages, registry)))
  /\ \E e \in ProviderErrors : exc' = e
  /\ pc' = "except"
  /\ UNCHANGED <<config, application, service, messages, callerHistory, aliased, frames,
                 result_text, response, toolCalls, outcome, endpoint,
                 streaming>>

\* a tool-use branch without the try of _execute_tool: an exception of
\* call_tool reaches the except clause of get_completion
ToolUseRoundUnguarded ==
  /\ pc = "execute_tool"
  /\ \E o \in ToolOutcomes :
       LET content == response[WalkContent(response, 1, <<>>).tool]
           grown == messages \o
                      <<BlocksEntry("assistant", response),
                        BlocksEntry("user",
                          <<ToolResultBlock(content.id, o.text)>>)>>
       IN  /\ toolCalls' =
                Append(toolCalls, ToolCall(content.name, content.input, o))
           /\ IF o.raised
              THEN /\ exc' = o.text
                   /\ pc' = "except"
                   /\ UNCHANGED <<messages, callerHistory, frames,
                                  result_text>>
              ELSE /\ messages' = PrepareMessages(grown, <<>>)
                   /\ callerHistory' =
                        IF aliased THEN messages' ELSE callerHistory
                   /\ frames' = Append(frames, result_text)
                   /\ result_text' = <<>>
                   /\ pc' = "create"
                   /\ UNCHANGED exc
  /\ UNCHANGED <<config, application, service, aliased, response, calls, outcome, endpoint,
                 streaming>>

\* a tool-use branch with a round limit of none: the tool is executed and
\* recorded, and the call returns its text without a continuation
ToolUseRoundLimited ==
  /\ pc = "execute_tool"
  /\ \E o \in ToolOutcomes :
       LET content == response[WalkContent(response, 1, <<>>).tool]
           grown == messages \o
                      <<BlocksEntry("assistant", response),
                        BlocksEntry("user",
                          <<ToolResultBlock(content.id, ExecuteTool(o))>>)>>
       IN  /\ toolCalls' =
                Append(toolCalls, ToolCall(content.name, content.input, o))
           /\ messages' = grown
  /\ callerHistory' = IF aliased THEN messages' ELSE callerHistory
  /\ pc' = "return"
  /\ UNCHANGED <<config, application, service, aliased, frames, result_text,
                 response, exc, calls, outcome, endpoint, streaming>>

\* the tool-use branch: execute the tool, append the assistant entry and
\* the tool-result entry, and call get_completion("", user_id, messages)
ToolUseRound ==
  /\ pc = "execute_tool"
  /\ \E o \in ToolOutcomes :
       LET content == response[WalkContent(response, 1, <<>>).tool]
           grown == messages \o
                      <<BlocksEntry("assistant", response),
                        BlocksEntry("user",
                          <<ToolResultBlock(content.id, ExecuteTool(o))>>)>>
       IN  /\ toolCalls' =
                Append(toolCalls, ToolCall(content.name, content.input, o))
           /\ messages' = PrepareMessages(grown, <<>>)
  /\ callerHistory' = IF aliased THEN messages' ELSE callerHistory
  /\ frames' = Append(frames, result_text)
  /\ result_text' = <<>>
  /\ pc' = "create"
  /\ UNCHANGED <<config, application, service, aliased, response, exc, calls, outcome, endpoint,
                 streaming>>

\* return result_text or the placeholder; a caller suspended in the
\* recursion appends the continuation to its result_text and returns too
Return ==
  /\ pc = "return"
  /\ IF frames = <<>>
     THEN /\ outcome' = Returned(ResultOrPlaceholder(result_text))
          /\ pc' = Finished
          /\ UNCHANGED <<frames, result_text>>
     ELSE /\ result_text' =
               frames[Len(frames)] \o ResultOrPlaceholder(result_text)
          /\ frames' = SubSeq(frames, 1, Len(frames) - 1)
          /\ pc' = "return"
          /\ UNCHANGED outcome
  /\ UNCHANGED <<config, application, service, messages, callerHistory, aliased, response, exc,
                 calls, toolCalls, endpoint, streaming>>

\* except Exception as e: every active call translates and re-raises
Except ==
  /\ pc = "except"
  /\ exc' = TranslateError(exc)
  /\ IF frames = <<>>
     THEN /\ outcome' = Raised(exc')
          /\ pc' = Finished
          /\ UNCHANGED frames
     ELSE /\ frames' = SubSeq(frames, 1, Len(frames) - 1)
          /\ pc' = "except"
          /\ UNCHANGED outcome
  /\ UNCHANGED <<config, application, service, messages, callerHistory, aliased, result_text,
                 response, calls, toolCalls, endpoint, streaming>>

(***************************************************************************)
(* ClaudeService.get_streaming_completion.                                 *)
(***************************************************************************)
\* if not self.is_available: raise, outside the try
GetStreamingUnavailable ==
  /\ pc = "get_streaming_completion" /\ ~apiKey
  /\ outcome' = Raised(NotAvailableMsg)
  /\ pc' = "done"
  /\ UNCHANGED <<config, application, service, messages, callerHistory, aliased, frames,
                 result_text, response, exc, calls, toolCalls, endpoint,
                 streaming>>

GetStreamingEnter ==
  /\ pc = "get_streaming_completion" /\ apiKey
  /\ messages' = PrepareMessages(callerHistory, message)
  /\ aliased' = (callerHistory # <<>>)
  /\ callerHistory' = IF aliased' THEN messages' ELSE callerHistory
  /\ pc' = "stream_open"
  /\ UNCHANGED <<config, application, service, frames, result_text, response, exc, calls,
                 toolCalls, outcome, endpoint, streaming>>

\* async with self.client.messages.stream(**stream_params) as stream
MessagesStream ==
  /\ pc = "stream_open" /\ Len(calls) < MaxCalls
  /\ calls' = Append(calls,
                ProviderCall("stream", CreateParams(messages, registry)))
  /\ \E r \in Responses :
       /\ Len(calls) + 1 < MaxCalls \/ ~HasToolUse(r)
       /\ response' = StampIds(r, Len(calls) + 1)
       /\ stream' = StreamEvents(response')
  /\ tool_use_blocks' = <<>>
  /\ openStreams' = openStreams + 1
  /\ pc' = "stream_iter"
  /\ UNCHANGED <<config, application, service, messages, callerHistory, aliased, frames,
                 result_text, exc, toolCalls, outcome, endpoint, chunks,
                 toolIdx>>

\* opening the stream raises
MessagesStreamFails ==
  /\ pc = "stream_open" /\ Len(calls) < MaxCalls
  /\ calls' = Append(calls,
                ProviderCall("stream", CreateParams(messages, registry)))
  /\ \E e \in ProviderErrors : exc' = e
  /\ pc' = "stream_except"
  /\ UNCHANGED <<config, application, service, messages, callerHistory, aliased, frames,
                 result_text, response, toolCalls, outcome, endpoint,
                 streaming>>

\* async for event in stream: one event
StreamNextEvent ==
  /\ pc = "stream_iter" /\ stream # <<>>
  /\ chunks' = chunks \o YieldedChunks(Head(stream))
  /\ tool_use_blocks' = CollectToolUse(tool_use_blocks, Head(stream))
  /\ stream' = Tail(stream)
  /\ UNCHANGED <<config, application, service, loop, pc, endpoint, toolIdx, openStreams>>

\* the stream is exhausted and held no tool use: the async with block is
\* left and the generator ends
StreamEndNoTools ==
  /\ pc = "stream_iter" /\ stream = <<>> /\ tool_use_blocks = <<>>
  /\ openStreams' = openStreams - 1
  /\ pc' = "stream_return"
  /\ UNCHANGED <<config, application, service, loop, endpoint, chunks, stream, tool_use_blocks,
                 toolIdx>>

\* if tool_use_blocks: the final message is appended as the assistant entry
StreamEndWithTools ==
  /\ pc = "stream_iter" /\ stream = <<>> /\ tool_use_blocks # <<>>
  /\ messages' = Append(messages, BlocksEntry("assistant", response))
  /\ callerHistory' = IF aliased THEN messages' ELSE callerHistory
  /\ toolIdx' = 1
  /\ pc' = "stream_tools"
  /\ UNCHANGED <<config, application, service, aliased, frames, result_text, response, exc, calls,
                 toolCalls, outcome, endpoint, chunks, stream,
                 tool_use_blocks, openStreams>>

\* for tool_block in tool_use_blocks: parse the input, call the tool and
\* append its result; an exception of call_tool leaves the async with block
StreamCallTool ==
  /\ pc = "stream_tools" /\ toolIdx <= Len(tool_use_blocks)
  /\ \E o \in ToolOutcomes :
       LET tool_block == tool_use_blocks[toolIdx]
           tool_input == ParseToolInput(tool_block.input)
       IN  /\ toolCalls' =
                Append(toolCalls, ToolCall(tool_block.name, tool_input, o))
           /\ IF o.raised
              THEN /\ exc' = o.text
                   /\ openStreams' = openStreams - 1
                   /\ pc' = "stream_except"
                   /\ UNCHANGED <<messages, callerHistory, toolIdx>>
              ELSE /\ messages' =
                        Append(messages,
                               BlocksEntry("user",
                                 <<ToolResultBlock(tool_block.id, o.text)>>))
                   /\ callerHistory' =
                        IF aliased THEN messages' ELSE callerHistory
                   /\ toolIdx' = toolIdx + 1
                   /\ UNCHANGED <<exc, openStreams, pc>>
  /\ UNCHANGED <<config, application, service, aliased, frames, result_text, response, calls,
                 outcome, endpoint, chunks, stream, tool_use_blocks>>

\* async for chunk in self.get_streaming_completion("", user_id, messages),
\* inside the async with block of the caller
StreamContinue ==
  /\ pc = "stream_tools" /\ toolIdx > Len(tool_use_blocks)
  /\ messages' = PrepareMessages(messages, <<>>)
  /\ callerHistory' = IF aliased THEN messages' ELSE callerHistory
  /\ frames' = Append(frames, <<>>)
  /\ pc' = "stream_open"
  /\ UNCHANGED <<config, application, service, aliased, result_text, response, exc, calls,
                 toolCalls, outcome, endpoint, streaming>>

\* the generator ends; a caller suspended in the recursion leaves its
\* async with block and ends too
StreamReturn ==
  /\ pc = "stream_return"
  /\ IF frames = <<>>
     THEN /\ outcome' = Returned(<<>>)
          /\ pc' = "done"
          /\ UNCHANGED <<frames, openStreams>>
     ELSE /\ frames' = SubSeq(frames, 1, Len(frames) - 1)
          /\ openStreams' = openStreams - 1
          /\ pc' = "stream_return"
          /\ UNCHANGED outcome
  /\ UNCHANGED <<config, application, service, messages, callerHistory, aliased, result_text,
                 response, exc, calls, toolCalls, endpoint, chunks, stream,
                 tool_use_blocks, toolIdx>>

\* except Exception as e: translate and re-raise; the exception then leaves
\* the async with block of the suspended caller, whose except runs next
StreamExcept ==
  /\ pc = "stream_except"
  /\ exc' = TranslateError(exc)
  /\ IF frames = <<>>
     THEN /\ outcome' = Raised(exc')
          /\ pc' = "done"
          /\ UNCHANGED <<frames, openStreams>>
     ELSE /\ frames' = SubSeq(frames, 1, Len(frames) - 1)
          /\ openStreams' = openStreams - 1
          /\ pc' = "stream_except"
          /\ UNCHANGED outcome
  /\ UNCHANGED <<config, application, service, messages, callerHistory, aliased, result_text,
                 response, calls, toolCalls, endpoint, chunks, stream,
                 tool_use_blocks, toolIdx>>


\* a cancellation that leaves the provider stream of the running call open
StreamCancelLeaks ==
  /\ pc = "stream_iter"
  /\ stream' = <<>>
  /\ tool_use_blocks' = <<>>
  /\ pc' = "stream_cancel"
  /\ UNCHANGED <<config, application, service, loop, endpoint, chunks, toolIdx,
                 openStreams>>

\* the consumer closes or cancels the generator while the events are being
\* read: GeneratorExit or CancelledError is raised at the suspension point,
\* is not an Exception, and leaves the async with block of the running
\* call, whose unread events and collected blocks are dropped
StreamCancel ==
  /\ pc = "stream_iter"
  /\ openStreams' = openStreams - 1
  /\ stream' = <<>>
  /\ tool_use_blocks' = <<>>
  /\ pc' = "stream_cancel"
  /\ UNCHANGED <<config, application, service, loop, endpoint, chunks, toolIdx>>

\* the cancellation leaves the async with block of every suspended caller
StreamCancelled ==
  /\ pc = "stream_cancel"
  /\ IF frames = <<>>
     THEN /\ outcome' = [kind |-> "cancelled", text |-> <<>>]
          /\ pc' = "done"
          /\ UNCHANGED <<frames, openStreams>>
     ELSE /\ frames' = SubSeq(frames, 1, Len(frames) - 1)
          /\ openStreams' = openStreams - 1
          /\ pc' = "stream_cancel"
          /\ UNCHANGED outcome
  /\ UNCHANGED <<config, application, service, messages, callerHistory, aliased,
                 result_text, response, exc, calls, toolCalls, endpoint,
                 chunks, stream, tool_use_blocks, toolIdx>>
(***************************************************************************)
(* MCPService.                                                             *)
(***************************************************************************)
\* initialize(): load the configuration, connect, list the tools; a failure
\* is logged and leaves the service initialised without tools
MCPInitialize ==
  /\ pc = "mcp_initialize"
  /\ mcp' = Initialized(configFile, clientConnects)
  /\ pc' = "done"
  /\ UNCHANGED <<config, application, tool_result, loop, endpoint, streaming>>

\* execute_tool(tool_name, parameters)
MCPExecute ==
  /\ pc = "mcp_execute_tool"
  /\ tool_result' = MCPExecuteTool(tool_name, parameters)
  /\ pc' = "done"
  /\ UNCHANGED <<config, application, mcp, loop, endpoint, streaming>>


(***************************************************************************)
(* Several chat requests served by one event loop.  A request runs from    *)
(* one await to the next without interruption; the requests are            *)
(* interleaved at the awaits of the provider call and of the tool call.    *)
(* The provider answers with one block here: a text or a tool use.         *)
(***************************************************************************)
\* one list object for every request, whatever a request does to it
NewListShared(r) == 1

\* messages = conversation_history if conversation_history else []: the
\* handler passes no history, so every request gets a list object of its own
NewList(r) == r

\* handle_non_streaming_chat calls get_completion, which appends the user
\* message to its new list and awaits client.messages.create
ReqSend(r) ==
  /\ entry = "concurrent_chat" /\ reqPc[r] = "start"
  /\ LET l == NewList(r)
         grown == lists[l] \o PrepareMessages(<<>>, message)
         by == creators[l] \o [i \in 1..(Len(grown) - Len(lists[l])) |-> r]
     IN  /\ reqList' = [reqList EXCEPT ![r] = l]
         /\ lists' = [lists EXCEPT ![l] = grown]
         /\ creators' = [creators EXCEPT ![l] = by]
         /\ reqCalls' = [reqCalls EXCEPT ![r] =
                       Append(@, [kwargs |-> CreateParams(grown, registry),
                                  creators |-> by])]
  /\ reqPc' = [reqPc EXCEPT ![r] = "create"]
  /\ UNCHANGED <<config, started, reqResponse, service, loop, pc, endpoint,
                 streaming>>

\* the provider call of a request returns: the content is walked up to the
\* first tool-use block, and the request either returns to the handler or
\* awaits the tool
ReqResponse(r) ==
  /\ entry = "concurrent_chat" /\ reqPc[r] = "create"
  /\ \E resp \in Responses :
       /\ Len(resp) = 1
       /\ Len(reqCalls[r]) < MaxCalls \/ ~HasToolUse(resp)
       /\ reqResponse' =
            [reqResponse EXCEPT ![r] = StampIds(resp, Len(reqCalls[r]))]
       /\ reqPc' = [reqPc EXCEPT ![r] =
                      IF WalkContent(resp, 1, <<>>).tool = 0
                      THEN "done" ELSE "execute_tool"]
  /\ UNCHANGED <<config, started, reqList, lists, creators, reqCalls, service,
                 loop, pc, endpoint, streaming>>

\* the tool call of a request returns: the assistant entry and the
\* tool-result entry are appended to its list, and the continuation
\* get_completion("", user_id, messages) awaits client.messages.create
ReqToolResult(r) ==
  /\ entry = "concurrent_chat" /\ reqPc[r] = "execute_tool"
  /\ \E o \in ToolOutcomes :
       LET l == reqList[r]
           content ==
             reqResponse[r][WalkContent(reqResponse[r], 1, <<>>).tool]
           grown ==
             PrepareMessages(
               lists[l] \o
                 <<BlocksEntry("assistant", reqResponse[r]),
                   BlocksEntry("user",
                     <<ToolResultBlock(content.id, ExecuteTool(o))>>)>>,
               <<>>)
           by == creators[l] \o [i \in 1..(Len(grown) - Len(lists[l])) |-> r]
       IN  /\ lists' = [lists EXCEPT ![l] = grown]
           /\ creators' = [creators EXCEPT ![l] = by]
           /\ reqCalls' = [reqCalls EXCEPT ![r] =
                         Append(@, [kwargs |-> CreateParams(grown, registry),
                                    creators |-> by])]
  /\ reqPc' = [reqPc EXCEPT ![r] = "create"]
  /\ UNCHANGED <<config, started, reqList, reqResponse, service, loop, pc,
                 endpoint, streaming>>

(***************************************************************************)
(* main.py: the startup handler.                                           *)
(***************************************************************************)
\* the fields class Settings declares
SettingsFields ==
  {"port", "environment", "anthropic_api_key", "anthropic_model",
   "max_tokens", "temperature"}

\* startup_event: with a credential configured it reads
\* settings.claude_model, and reading a field Settings does not declare
\* raises AttributeError
StartupEvent ==
  /\ pc = "startup"
  /\ started' = IF apiKey /\ "claude_model" \notin SettingsFields
                THEN "failed" ELSE "complete"
  /\ pc' = "done"
  /\ UNCHANGED <<config, reqPc, reqList, reqResponse, lists, creators,
                 reqCalls, service, loop, endpoint, streaming>>
Next ==
  \/ NonStreamingImportFails
  \/ NonStreamingEcho
  \/ NonStreamingCallClaude
  \/ NonStreamingRespond
  \/ StreamingImportFails
  \/ StreamingEcho
  \/ StreamingSimulated
  \/ StreamingYield
  \/ StreamingDone
  \/ GetCompletionUnavailable
  \/ GetCompletionEnter
  \/ MessagesCreate
  \/ MessagesCreateFails
  \/ ToolUseRound
  \/ Return
  \/ Except
  \/ GetStreamingUnavailable
  \/ GetStreamingEnter
  \/ MessagesStream
  \/ MessagesStreamFails
  \/ StreamNextEvent
  \/ StreamEndNoTools
  \/ StreamEndWithTools
  \/ StreamCallTool
  \/ StreamContinue
  \/ StreamReturn
  \/ StreamExcept
  \/ StreamCancel
  \/ StreamCancelled
  \/ MCPInitialize
  \/ MCPExecute
  \/ \E r \in Requests : ReqSend(r)
  \/ \E r \in Requests : ReqResponse(r)
  \/ \E r \in Requests : ReqToolResult(r)
  \/ StartupEvent

Spec == Init /\ [][Next]_vars

\* the steps of get_streaming_completion that follow the opening of a
\* stream: the provider answers, and the generator is resumed
StreamingStep ==
  \/ MessagesStream
  \/ StreamNextEvent
  \/ StreamEndNoTools
  \/ StreamEndWithTools
  \/ StreamCallTool
  \/ StreamContinue
  \/ StreamReturn
  \/ StreamExcept
  \/ StreamCancelled

\* get_streaming_completion called directly, and all of its steps
StreamingInit == Init /\ entry = "get_streaming_completion"
StreamingNext ==
  \/ GetStreamingUnavailable
  \/ GetStreamingEnter
  \/ MessagesStreamFails
  \/ StreamCancel
  \/ StreamingStep

\* the event loop resumes a generator that can take a step; whether the
\* consumer cancels and whether the provider fails is left open
FairSpec ==
  StreamingInit /\ [][StreamingNext]_vars /\ WF_vars(StreamingStep)

(***************************************************************************)
(* Vocabulary of the properties.                                           *)
(***************************************************************************)
NonStreamingLoop == entry \in {"chat", "get_completion"}
StreamingLoop == entry = "get_streaming_completion"

\* the text of the content events, in the order sent
ContentText(evts) ==
  Concat([i \in 1..Len(evts) |->
            IF evts[i].type = "content" THEN evts[i].content ELSE <<>>])

IsTerminal(e) == e.type \in {"done", "error"}
TerminalPositions(evts) == {i \in 1..Len(evts) : IsTerminal(evts[i])}
DonePositions(evts) == {i \in 1..Len(evts) : evts[i].type = "done"}

\* the text of the text blocks of a content list
RECURSIVE TextOf(_)
TextOf(content) ==
  IF content = <<>> THEN <<>>
  ELSE (IF Head(content).type = "text" THEN Head(content).text ELSE <<>>)
       \o TextOf(Tail(content))

IsTextOnly(content) ==
  /\ content # <<>>
  /\ \A i \in 1..Len(content) : content[i].type = "text"

\* leading text blocks, then one tool-use block
IsLeadThenToolUse(content) ==
  /\ content # <<>>
  /\ content[Len(content)].type = "tool_use"
  /\ \A i \in 1..(Len(content) - 1) : content[i].type = "text"

IsAssistantTurn(e) == e.role = "assistant" /\ e.kind = "list"
IsToolResult(e) ==
  e.role = "user" /\ e.kind = "list" /\ Len(e.blocks) = 1
  /\ e.blocks[1].type = "tool_result"
\* the responses recorded in the history, and its tool-result entries
AssistantTurns == SelectSeq(messages, IsAssistantTurn)
ToolResults == SelectSeq(messages, IsToolResult)

\* the one-round scenario: a first response of leading text and one
\* tool-use block, answered by a second response of text only
RoundTrip ==
  /\ NonStreamingLoop
  /\ outcome.kind = "returned"
  /\ Len(AssistantTurns) = 1
  /\ IsLeadThenToolUse(AssistantTurns[1].blocks)
  /\ IsTextOnly(response)

(***************************************************************************)
(* C1.  Whatever the message, the empty one included, when the service     *)
(* reports itself unavailable the non-streaming endpoint answers 200 with  *)
(* exactly "Echo: " + message + the no-credential note, and no provider    *)
(* call is made.                                                           *)
(***************************************************************************)
C1_NoCredentialEcho ==
  (entry = "chat" /\ pc = "done" /\ serviceLoads /\ ~apiKey)
    => /\ http.status = 200
       /\ http.text = EchoPrefix \o message \o NoCredentialNote
       /\ calls = <<>>
       /\ outcome = NoOutcome

C1_Witness ==
  /\ entry = "chat" /\ pc = "done" /\ serviceLoads /\ ~apiKey
  /\ message = <<"a", " ">>
  /\ http.status = 200

(***************************************************************************)
(* C2.  When the service is available and get_completion raises, the       *)
(* non-streaming endpoint still answers 200; the text is "Echo: " +        *)
(* message + the error note + the message of the exception raised, and the *)
(* substitution is made once.                                              *)
(***************************************************************************)
C2_ErrorFallback ==
  /\ fallbacks <= 1
  /\ (entry = "chat" /\ pc = "done" /\ outcome.kind = "raised")
       => /\ http.status = 200
          /\ http.text =
               EchoPrefix \o message \o ErrorNotePrefix \o outcome.text
          /\ fallbacks = 1

C2_Witness ==
  /\ entry = "chat" /\ pc = "done" /\ apiKey
  /\ outcome.kind = "raised"
  /\ message # <<>>
  /\ http.status = 200

(***************************************************************************)
(* C3.  Non-streaming round trip: after a first response of leading text   *)
(* and one tool-use block and a second response of text only, the result   *)
(* is the leading text followed by the text of the second response; the    *)
(* tool was invoked once, with the name and the arguments of the tool-use  *)
(* block, and the provider was called twice.                               *)
(***************************************************************************)
C3_ToolUseRoundTrip ==
  RoundTrip =>
    LET first == AssistantTurns[1].blocks
        tool_use == first[Len(first)]
    IN  /\ outcome.text = TextOf(first) \o TextOf(response)
        /\ Len(toolCalls) = 1
        /\ toolCalls[1].name = tool_use.name
        /\ toolCalls[1].input = tool_use.input
        /\ Len(calls) = 2
        /\ \A i \in 1..Len(calls) : calls[i].op = "create"

C3_Witness ==
  /\ RoundTrip
  /\ TextOf(AssistantTurns[1].blocks) = <<"x">>
  /\ outcome.text = <<"x", "x", "x">>
  /\ ~toolCalls[1].raised

(***************************************************************************)
(* C4.  Streaming tool use: when a stream delivers a tool-use start        *)
(* followed by argument deltas, the tool is invoked once, with the name of *)
(* that tool use and with the arguments parsed from the JSON the deltas    *)
(* carry.                                                                  *)
(***************************************************************************)
ToolStarts(evts) ==
  {i \in 1..Len(evts) :
     evts[i].type = "content_block_start" /\ evts[i].block_type = "tool_use"}

\* the JSON carried by the deltas at the head of evts, up to the next block
RECURSIVE DeltaJson(_)
DeltaJson(evts) ==
  IF evts = <<>> THEN <<>>
  ELSE IF Head(evts).type = "content_block_start" THEN <<>>
  ELSE (IF Head(evts).has_json THEN Head(evts).partial_json ELSE <<>>)
       \o DeltaJson(Tail(evts))

\* the first round of a stream with one tool use, all its tools called
OneStreamedToolUse ==
  /\ StreamingLoop
  /\ frames = <<>>
  /\ pc = "stream_tools"
  /\ toolIdx > Len(tool_use_blocks)
  /\ Cardinality(ToolStarts(StreamEvents(response))) = 1

C4_StreamedToolArguments ==
  OneStreamedToolUse =>
    LET evts == StreamEvents(response)
        p == CHOOSE i \in ToolStarts(evts) : TRUE
        json == DeltaJson(SubSeq(evts, p + 1, Len(evts)))
    IN  /\ Len(toolCalls) = 1
        /\ toolCalls[1].name = evts[p].name
        /\ JsonLoads(json).ok
        /\ toolCalls[1].input = JsonLoads(json).value

(***************************************************************************)
(* C5.  With stream set and the service available, the content events of   *)
(* the endpoint carry, in order, the text chunks of the service's          *)
(* streaming completion for the message, and one done event follows.       *)
(***************************************************************************)
C5_StreamRelaysCompletion ==
  (entry = "chat_stream" /\ pc = "done" /\ serviceLoads /\ apiKey)
    => /\ ContentText(events) = Concat(chunks)
       /\ DonePositions(events) = {Len(events)}

(***************************************************************************)
(* C6.  Streaming with no credential: the fragments of the content events, *)
(* in order, are the text the non-streaming endpoint returns for the same  *)
(* message with no credential, and exactly one done event follows them.    *)
(***************************************************************************)
C6_StreamedEchoMatches ==
  (entry = "chat_stream" /\ pc = "done" /\ serviceLoads /\ ~apiKey)
    => /\ ContentText(events) = NoCredentialText(message)
       /\ DonePositions(events) = {Len(events)}
       /\ \A i \in 1..(Len(events) - 1) : events[i].type = "content"

C6_Witness ==
  /\ entry = "chat_stream" /\ pc = "done" /\ serviceLoads /\ ~apiKey
  /\ message = <<" ", "a">>
  /\ Len(events) = Len(NoCredentialText(message)) + 1

(***************************************************************************)
(* C7.  An event stream of the endpoint holds at most one terminal event,  *)
(* and nothing after it; a stream that has run to its end ends with one:   *)
(* done when the handler succeeded, error when it failed.                  *)
(***************************************************************************)
C7_OneTerminalEvent ==
  /\ TerminalPositions(events) \subseteq {Len(events)}
  /\ (entry = "chat_stream" /\ pc = "done")
       => /\ TerminalPositions(events) = {Len(events)}
          /\ events[Len(events)].type =
               IF serviceLoads THEN "done" ELSE "error"

C7_Witness ==
  /\ entry = "chat_stream" /\ pc = "done"
  /\ Len(events) > 1
  /\ events[1].type = "content"
  /\ events[Len(events)].type = "done"

\* the other ending: the handler failed and the stream is one error event
C7_WitnessError ==
  /\ entry = "chat_stream" /\ pc = "done"
  /\ events = <<ErrorEvent(ImportErrorMsg)>>

(***************************************************************************)
(* C8.  Every provider call of the loop, the first and every continuation, *)
(* streaming or not, carries the registry's tool list as tools when the    *)
(* list is non-empty and carries no tools parameter when it is empty.      *)
(***************************************************************************)
C8_ToolsParameter ==
  \A i \in 1..Len(calls) :
    IF registry # <<>>
    THEN /\ "tools" \in DOMAIN calls[i].kwargs
         /\ calls[i].kwargs["tools"] = registry
    ELSE "tools" \notin DOMAIN calls[i].kwargs

C8_Witness ==
  /\ registry = <<>>
  /\ Len(calls) = 2
  /\ calls[2].op = "stream"
  /\ DOMAIN calls[2].kwargs = {"model", "max_tokens", "temperature", "messages"}

(***************************************************************************)
(* C9.  Non-streaming loop: an exception of the tool invocation does not   *)
(* leave get_completion.  It becomes an error-describing string, recorded  *)
(* as the tool-result entry; the tool is invoked once per tool-use         *)
(* response, the provider is called again, and the text of the             *)
(* continuation is returned.                                               *)
(***************************************************************************)
FirstToolUse(content) ==
  CHOOSE i \in 1..Len(content) :
    /\ content[i].type = "tool_use"
    /\ \A j \in 1..(i - 1) : content[j].type # "tool_use"

C9_ToolErrorContained ==
  NonStreamingLoop =>
    /\ Len(ToolResults) = Len(toolCalls)
    /\ Len(AssistantTurns) = Len(toolCalls)
    /\ \A k \in 1..Len(toolCalls) :
         toolCalls[k].raised =>
           /\ ToolResults[k].blocks[1].text =
                ToolErrorPrefix \o toolCalls[k].text
           /\ Len(calls) > k \/ (Len(calls) = k /\ pc = "create")
    /\ (/\ outcome.kind = "returned" /\ Len(calls) = 2
        /\ Len(toolCalls) = 1 /\ toolCalls[1].raised /\ IsTextOnly(response))
         => LET first == AssistantTurns[1].blocks
            IN  outcome.text =
                  TextOf(SubSeq(first, 1, FirstToolUse(first) - 1))
                    \o TextOf(response)

C9_Witness ==
  /\ NonStreamingLoop
  /\ outcome.kind = "returned"
  /\ Len(toolCalls) = 1 /\ toolCalls[1].raised
  /\ Len(calls) = 2
  /\ outcome.text = <<"x">>
  /\ ToolResults[1].blocks[1].text = ToolErrorPrefix \o <<"f", "a", "i", "l">>

(***************************************************************************)
(* C10.  Streaming loop: an exception of a tool invocation does not leave  *)
(* get_streaming_completion; the failure becomes a descriptive string in   *)
(* the tool-result entry and the continuation is streamed.                 *)
(***************************************************************************)
C10_StreamingToolErrorContained ==
  StreamingLoop =>
    \A k \in 1..Len(toolCalls) :
      toolCalls[k].raised =>
        /\ pc # "stream_except"
        /\ Len(ToolResults) >= k
        /\ ToolResults[k].blocks[1].text =
             ToolErrorPrefix \o toolCalls[k].text

(***************************************************************************)
(* C11.  Before the first provider call the user message is appended to    *)
(* the history as one user entry, unless the history is non-empty and the  *)
(* content of its last entry equals the message, and then nothing is       *)
(* appended.  A prior history of n entries whose last content differs from *)
(* the message reaches the provider as n + 1 entries: the prior entries in *)
(* order, then the message.                                                *)
(***************************************************************************)
LastContentIs(hist, m) ==
  /\ hist # <<>>
  /\ hist[Len(hist)].kind = "str"
  /\ hist[Len(hist)].text = m

C11_GuardedAppend ==
  calls # <<>> =>
    LET sent == calls[1].kwargs.messages
        n == Len(priorHistory)
    IN  IF LastContentIs(priorHistory, message)
        THEN sent = priorHistory
        ELSE /\ Len(sent) = n + 1
             /\ SubSeq(sent, 1, n) = priorHistory
             /\ sent[n + 1] = TextEntry("user", message)

C11_Witness ==
  /\ Len(priorHistory) = 2
  /\ message = <<"a">>
  /\ calls # <<>>
  /\ Len(calls[1].kwargs.messages) = 3

\* the other case: the last entry already carries the message
C11_WitnessRepeated ==
  /\ priorHistory = <<TextEntry("assistant", <<"a">>)>>
  /\ message = <<"a">>
  /\ calls # <<>>
  /\ calls[1].kwargs.messages = priorHistory

(***************************************************************************)
(* C12.  The non-streaming endpoint lets no exception escape: a request    *)
(* ends with status 200 or 500, and an exception that was not turned into  *)
(* the echo fallback ends it with status 500 and a detail that contains    *)
(* the text of the exception.                                              *)
(***************************************************************************)
C12_ServerErrorBoundary ==
  (entry = "chat" /\ pc = "done") =>
    /\ http.status \in {200, 500}
    /\ ~serviceLoads =>
         /\ http.status = 500
         /\ Contains(http.detail, ImportErrorMsg)
         /\ fallbacks = 0
    /\ serviceLoads => http.status = 200

C12_Witness ==
  /\ entry = "chat" /\ pc = "done"
  /\ http.status = 500
  /\ http.detail = ServerErrorPrefix \o ImportErrorMsg

(***************************************************************************)
(* C13.  In every non-streaming response prompt_tokens is the number of    *)
(* whitespace-separated words of the request message, completion_tokens    *)
(* the number of whitespace-separated words of the response text, and      *)
(* total_tokens their sum; "Hello, test!" counts 2 and the empty message   *)
(* counts 0.                                                               *)
(***************************************************************************)
\* the positions where a word starts
WordStarts(s) ==
  {i \in 1..Len(s) : ~IsSpace(s[i]) /\ (i = 1 \/ IsSpace(s[i - 1]))}

HelloTest == <<"H", "e", "l", "l", "o", ",", " ", "t", "e", "s", "t", "!">>

C13_UsageWordCounts ==
  (entry = "chat" /\ pc = "done" /\ http.status = 200) =>
    /\ http.usage.prompt_tokens = Cardinality(WordStarts(message))
    /\ http.usage.completion_tokens = Cardinality(WordStarts(http.text))
    /\ http.usage.total_tokens =
         http.usage.prompt_tokens + http.usage.completion_tokens
    /\ message = <<>> => http.usage.prompt_tokens = 0

C13_Witness ==
  /\ entry = "chat" /\ pc = "done" /\ http.status = 200
  /\ message = <<" ", "a">>
  /\ http.usage.prompt_tokens = 1
  /\ http.usage.completion_tokens > 1
  /\ Usage(HelloTest, <<>>).prompt_tokens = 2

(***************************************************************************)
(* C14.  execute_tool with a name that is not a registered tool fails as   *)
(* an unknown tool, and with a malformed name such as "../etc" as an       *)
(* invalid tool name, in both cases without running any tool logic; a      *)
(* registered tool with well-formed arguments returns a non-empty string;  *)
(* no call raises.                                                         *)
(***************************************************************************)
\* characters a tool name may not hold
IsMalformedName(name) == \E i \in 1..Len(name) : name[i] \in {".", "/"}
\* the result that reports an unknown tool
IsUnknownToolResult(r, name) ==
  r.text = UnknownToolPrefix \o name \o ClosingQuote

C14_ToolNameValidation ==
  (entry = "mcp_execute_tool" /\ pc = "done") =>
    /\ ~tool_result.raised
    /\ tool_name = UnregisteredName =>
         /\ IsUnknownToolResult(tool_result, tool_name)
         /\ tool_result.logic = ""
    /\ IsMalformedName(tool_name) =>
         /\ ~IsUnknownToolResult(tool_result, tool_name)
         /\ tool_result.logic = ""
    /\ (tool_name = CalculateName
        /\ parameters = {<<"expression", FivePlusFive>>}) =>
         tool_result.text # <<>>

C16_ContinuationHistory ==
  NonStreamingLoop =>
    \A i \in 2..Len(calls) :
      LET prev == calls[i - 1].kwargs.messages
          cur == calls[i].kwargs.messages
          n == Len(prev)
      IN  /\ Len(cur) = n + 2
          /\ SubSeq(cur, 1, n) = prev
          /\ IsAssistantTurn(cur[n + 1])
          /\ IsToolResult(cur[n + 2])

(***************************************************************************)
(* C17.  Within one request the history only grows at its end: the history *)
(* of every provider call has the history of the previous provider call as *)
(* a prefix, in both loops, and the current history extends the last one   *)
(* sent.                                                                   *)
(***************************************************************************)
IsPrefix(s, t) == Len(s) <= Len(t) /\ SubSeq(t, 1, Len(s)) = s

C17_AppendOnlyHistory ==
  /\ \A i \in 2..Len(calls) :
       IsPrefix(calls[i - 1].kwargs.messages, calls[i].kwargs.messages)
  /\ calls # <<>> => IsPrefix(calls[Len(calls)].kwargs.messages, messages)

C17_Witness ==
  /\ StreamingLoop
  /\ Len(calls) = 2
  /\ Len(priorHistory) = 2
  /\ Len(calls[2].kwargs.messages) > Len(calls[1].kwargs.messages)
  /\ SubSeq(calls[2].kwargs.messages, 1, 2) = priorHistory

(***************************************************************************)
(* C18.  Non-streaming loop: the walk over a response stops at its first   *)
(* tool-use block.  One tool at most is invoked per response, the one of   *)
(* that block; blocks after it add neither text nor invocations; the text  *)
(* of the continuation follows the text gathered before the block.         *)
(***************************************************************************)
LeadText(content) == TextOf(SubSeq(content, 1, FirstToolUse(content) - 1))

C18_WalkStopsAtToolUse ==
  NonStreamingLoop =>
    /\ Len(toolCalls) <= Len(AssistantTurns)
    /\ \A k \in 1..Len(ToolResults) :
         LET content == AssistantTurns[k].blocks
         IN  ToolResults[k].blocks[1].id = content[FirstToolUse(content)].id
    /\ (/\ outcome.kind = "returned"
        /\ Len(AssistantTurns) = 1
        /\ TextOf(response) # <<>>)
         => outcome.text =
              LeadText(AssistantTurns[1].blocks) \o TextOf(response)

C18_Witness ==
  /\ NonStreamingLoop
  /\ outcome = Returned(<<"x">>)
  /\ Len(AssistantTurns) = 1
  /\ Len(AssistantTurns[1].blocks) = 2
  /\ AssistantTurns[1].blocks[1].type = "tool_use"
  /\ AssistantTurns[1].blocks[2].type = "text"
  /\ Len(toolCalls) = 1

\* two tool-use blocks in one response, one invocation
C18_WitnessTwoToolUses ==
  /\ NonStreamingLoop
  /\ outcome.kind = "returned"
  /\ Len(AssistantTurns) = 1
  /\ Len(AssistantTurns[1].blocks) = 2
  /\ \A i \in 1..2 : AssistantTurns[1].blocks[i].type = "tool_use"
  /\ Len(toolCalls) = 1

(***************************************************************************)
(* C19.  get_completion returns the text accumulated over the request, all *)
(* tool rounds included, and the placeholder "No response generated"       *)
(* exactly when no text was produced at all: the placeholder is never      *)
(* added to real text, and the result is never empty.                      *)
(***************************************************************************)
\* the text the responses of the request contributed, in order
Produced ==
  Concat([k \in 1..Len(AssistantTurns) |->
            LeadText(AssistantTurns[k].blocks)]) \o TextOf(response)

C19_PlaceholderOnlyWhenEmpty ==
  (NonStreamingLoop /\ outcome.kind = "returned") =>
    /\ outcome.text # <<>>
    /\ outcome.text =
         IF Produced = <<>> THEN NoResponseGenerated ELSE Produced

(***************************************************************************)
(* C20.  A failure of a provider call is re-raised as one of three kinds   *)
(* chosen from its text: the authentication error for a credential error,  *)
(* the rate-limit error for a rate-limit error, and otherwise the upstream *)
(* error carrying the original message; an error that is neither is never  *)
(* reported as one of the first two.                                       *)
(***************************************************************************)
CredentialErrors ==
  {<<"b", "a", "d", " ", "A", "P", "I", "_", "K", "E", "Y">>}
RateLimitErrors == {<<"r", "a", "t", "e", " ", "l", "i", "m", "i", "t">>}

C20_ErrorKinds ==
  [][(pc \in {"except", "stream_except"} /\ exc \in ProviderErrors)
       => exc' = IF exc \in CredentialErrors THEN InvalidKeyMsg
                 ELSE IF exc \in RateLimitErrors THEN RateLimitMsg
                 ELSE ApiErrorPrefix \o exc]_vars

(***************************************************************************)
(* C21.  A failed provider call of the non-streaming request is handled    *)
(* by depth: a failure of the first call ends the request with the echo    *)
(* and the explanation, and a failure of a call made in a tool-use         *)
(* continuation is not converted and ends the request with an error status *)
(* instead of the echo.                                                    *)
(***************************************************************************)
\* the request ended after get_completion raised on provider call number n
FailedOnCall(n) ==
  /\ entry = "chat" /\ pc = "done"
  /\ outcome.kind = "raised"
  /\ Len(calls) = n

C21_AsymmetricFailure ==
  /\ FailedOnCall(1) =>
       http = ChatCompletionResponse(
                message, ErrorFallbackText(message, outcome.text))
  /\ \A n \in 2..MaxCalls + 1 :
       FailedOnCall(n) => /\ http.status # 200
                          /\ fallbacks = 0

(***************************************************************************)
(* C22.  However concurrent chat requests are interleaved at their awaits, *)
(* the history of a request is its own: every provider call of a request   *)
(* receives only entries that this request appended, and no step of a      *)
(* request changes the shared client handle or the tool registry.          *)
(***************************************************************************)
C22_RequestOwnsHistory ==
  /\ [](\A r \in Requests :
          \A i \in 1..Len(reqCalls[r]) :
            \A j \in 1..Len(reqCalls[r][i].creators) :
              reqCalls[r][i].creators[j] = r)
  /\ [][entry = "concurrent_chat" => UNCHANGED <<apiKey, registry>>]_vars

\* two requests, each suspended in the provider call of its continuation
C22_Witness ==
  /\ entry = "concurrent_chat"
  /\ \A r \in {1, 2} : reqPc[r] = "create" /\ Len(reqCalls[r]) = 2

C23_WitnessNormal ==
  StreamingLoop /\ outcome.kind = "returned" /\ calls # <<>> /\ openStreams = 0
C23_WitnessError ==
  StreamingLoop /\ outcome.kind = "raised" /\ Len(calls) = 2 /\ openStreams = 0

C24_WitnessRunning ==
  /\ NonStreamingLoop
  /\ pc = "execute_tool"
  /\ HasToolUse(response)
  /\ outcome.kind = "none"

(***************************************************************************)
(* C25.  Whenever the loop calls the provider, every tool-use id in an     *)
(* assistant entry of the history has exactly one tool-result entry with   *)
(* that id later in the history, and every tool-result entry comes after   *)
(* the assistant entry that holds its id; also when one response carries   *)
(* several tool-use blocks.                                                *)
(***************************************************************************)
C25_ToolResultPairing ==
  \A c \in 1..Len(calls) :
    LET hist == calls[c].kwargs.messages
        ResultsFor(id, from) ==
          {j \in from..Len(hist) :
             IsToolResult(hist[j]) /\ hist[j].blocks[1].id = id}
    IN  /\ \A i \in 1..Len(hist) :
             IsAssistantTurn(hist[i]) =>
               \A b \in 1..Len(hist[i].blocks) :
                 hist[i].blocks[b].type = "tool_use" =>
                   Cardinality(ResultsFor(hist[i].blocks[b].id, i + 1)) = 1
        /\ \A j \in 1..Len(hist) :
             IsToolResult(hist[j]) =>
               \E i \in 1..(j - 1) :
                 /\ IsAssistantTurn(hist[i])
                 /\ \E b \in 1..Len(hist[i].blocks) :
                      /\ hist[i].blocks[b].type = "tool_use"
                      /\ hist[i].blocks[b].id = hist[j].blocks[1].id

(***************************************************************************)
(* C26.  get_completion and get_streaming_completion leave the list their  *)
(* caller passed as conversation_history unchanged: when the call has      *)
(* returned or raised, the caller's list holds the entries it held before  *)
(* the call, for an empty and for a non-empty list.                        *)
(***************************************************************************)
C26_CallerHistoryUnchanged ==
  (/\ entry \in {"get_completion", "get_streaming_completion"}
   /\ outcome.kind \in {"returned", "raised"})
    => callerHistory = priorHistory

(***************************************************************************)
(* C27.  A streaming request holds at most one provider stream open at any *)
(* moment: the stream of a tool-use round is released before the stream of *)
(* its continuation is opened.                                             *)
(***************************************************************************)
C27_OneOpenStream == StreamingLoop => openStreams <= 1

(***************************************************************************)
(* C28.  The kind of a provider failure survives the recursion: a failure  *)
(* raised in a continuation reaches the caller of the outermost call with  *)
(* the kind and the message it was given where it was first translated.    *)
(***************************************************************************)
C28_ErrorKindPreserved ==
  LET Failures ==
        ProviderErrors \cup {o.text : o \in {t \in ToolOutcomes : t.raised}}
  IN  (outcome.kind = "raised" /\ calls # <<>>)
        => \E e \in Failures : outcome.text = TranslateError(e)

(***************************************************************************)
(* C29.  Every tool the listing advertises can be executed: executing a    *)
(* tool under a name the listing returns does not give the unknown-tool    *)
(* error, and the names in the listing are pairwise distinct.              *)
(***************************************************************************)
C29_AdvertisedToolsExecutable ==
  (entry = "mcp_execute_tool" /\ pc = "done") =>
    /\ \A i \in 1..Len(registry) :
         NameText(registry[i].name) = tool_name =>
           ~IsUnknownToolResult(tool_result, tool_name)
    /\ \A i, j \in 1..Len(registry) :
         i # j => registry[i].name # registry[j].name

(***************************************************************************)
(* C30.  The startup handler finishes normally in both configurations,     *)
(* with a provider credential configured and without one.                  *)
(***************************************************************************)
C30_StartupCompletes ==
  (entry = "startup" /\ pc = "done") => started = "complete"
====
